---- MODULE Spec2Model ----
(***************************************************************************)
(* Model of the multi-protocol demo automation:                            *)
(*   src/src/active_directory.py        class ActiveDirectory              *)
(*   src/src/setup_active_directory.py  the legacy directory script        *)
(*   src/src/setup_flasharray.py        setup(fa) / cleanup(fa)            *)
(*                                                                         *)
(* The directory service is a set of entries keyed by distinguished name.  *)
(* Every method of the client is a pure operator from the connection state *)
(* before the call to the connection state after it; the connection state  *)
(* carries the directory, the calls issued to it (with the result status   *)
(* of each) and the lines printed.  The directory may reject any add,      *)
(* modify or delete (the `fault` inputs): the code sees that only through  *)
(* conn.result['description'].                                             *)
(***************************************************************************)
EXTENDS Naturals, Sequences, FiniteSets

VARIABLES dir, uac, pwd, member, pgid, op, calls, log,
          fa, fa0, pc, issued

dvars == <<dir, uac, pwd, member, pgid, op, calls, log>>
svars == <<fa, fa0, pc, issued>>
vars == <<dir, uac, pwd, member, pgid, op, calls, log, fa, fa0, pc, issued>>

(***************************************************************************)
(* Names used by the scripts.                                              *)
(***************************************************************************)
OUNames == {"Groups"}
GroupNames == {"win_users"}
UserNames == {"win_user", "nfs_daemon"}

\* f'OU={ou_name},{self.base_dn}'
ou_dn(ou_name) == <<"OU", ou_name>>
\* f'CN={ou_name},{self.base_dn}'
cn_dn(ou_name) == <<"CN", ou_name>>
\* f'CN={name},OU=Groups,{self.base_dn}'; the legacy script's
\* f'cn={_name},ou=Groups,{BASE_DN}' is the same name (DNs ignore case).
group_dn(name) == <<"CN", name, "OU", "Groups">>
\* f'CN={name},CN=Users,{self.base_dn}'
user_dn(name) == <<"CN", name, "CN", "Users">>
\* f'cn={_name},ou=Users,{BASE_DN}': another container than user_dn's.
legacy_user_dn(name) == <<"CN", name, "OU", "Users">>

DNs ==
  {ou_dn(n) : n \in OUNames} \cup {cn_dn(n) : n \in OUNames}
    \cup {group_dn(n) : n \in GroupNames}
    \cup {user_dn(n) : n \in UserNames}
    \cup {legacy_user_dn(n) : n \in UserNames}

\* gid handed to the legacy add_user_to_group for the group win_users
\* (setup_active_directory.py line 81)
legacy_gid(group_name) == 9060

(***************************************************************************)
(* The connection: ldap3's Connection as the code uses it.                 *)
(***************************************************************************)
\* the connection before an operation starts: nothing issued, nothing printed
Start ==
  [dir |-> dir, uac |-> uac, pwd |-> pwd, member |-> member, pgid |-> pgid,
   calls |-> <<>>, log |-> <<>>]

print(S, msg) == [S EXCEPT !.log = Append(@, msg)]

\* conn.entries after the last search
entries(S) == S.calls[Len(S.calls)].entries
\* conn.result['description'] after the last add, modify or delete
result(S) == S.calls[Len(S.calls)].result

\* conn.search(base_dn, '(distinguishedName=...)'): the entries whose DN the
\* filter names
conn_search(S, filter) ==
  [S EXCEPT !.calls = Append(@, [call |-> "search", filter |-> filter,
                                 entries |-> filter \cap S.dir])]

\* conn.add(dn, object_class, attributes)
conn_add(S, dn, attributes, fault) ==
  LET res == IF fault THEN "unwillingToPerform"
             ELSE IF dn \in S.dir THEN "entryAlreadyExists"
             ELSE "success"
      S1 == IF res = "success"
            THEN [S EXCEPT !.dir = @ \cup {dn},
                           !.uac[dn] = attributes.userAccountControl]
            ELSE S
  IN [S1 EXCEPT !.calls = Append(@, [call |-> "add", dn |-> dn,
                                     attr |-> "userAccountControl",
                                     val |-> attributes.userAccountControl,
                                     result |-> res])]

\* conn.modify(dn, {attr: [(MODIFY_REPLACE, [val])]})
conn_modify(S, dn, attr, val, fault) ==
  LET res == IF fault THEN "unwillingToPerform"
             ELSE IF dn \notin S.dir THEN "noSuchObject"
             ELSE IF attr = "member" /\ val \notin S.dir THEN "noSuchObject"
             ELSE "success"
      S1 == IF res # "success" THEN S
            ELSE IF attr = "member" THEN [S EXCEPT !.member[dn] = {val}]
            ELSE IF attr = "userAccountControl" THEN [S EXCEPT !.uac[dn] = val]
            ELSE IF attr = "unicodePwd" THEN [S EXCEPT !.pwd = @ \cup {dn}]
            ELSE [S EXCEPT !.pgid[dn] = val]
  IN [S1 EXCEPT !.calls = Append(@, [call |-> "modify", dn |-> dn,
                                     attr |-> attr, val |-> val,
                                     result |-> res])]

\* conn.delete(dn): the entry goes, with its attributes and the links to it
conn_delete(S, dn, fault) ==
  LET res == IF fault THEN "unwillingToPerform"
             ELSE IF dn \notin S.dir THEN "noSuchObject"
             ELSE "success"
      S1 == IF res # "success" THEN S
            ELSE [S EXCEPT !.dir = @ \ {dn},
                           !.uac[dn] = 0,
                           !.pgid[dn] = 0,
                           !.pwd = @ \ {dn},
                           !.member = [g \in DNs |->
                                         IF g = dn THEN {} ELSE @[g] \ {dn}]]
  IN [S1 EXCEPT !.calls = Append(@, [call |-> "delete", dn |-> dn,
                                     attr |-> "", val |-> 0,
                                     result |-> res])]

(***************************************************************************)
(* class ActiveDirectory                                                   *)
(***************************************************************************)
\* attributes of an organizational unit or a group: no account control
plain_attributes == [userAccountControl |-> 0]

\* an existence check that looks for CN=<name> only
ensure_ou_exists_cn_only(S, ou_name, f1) ==
  LET S1 == conn_search(S, {cn_dn(ou_name)})
  IN IF entries(S1) # {}
     THEN print(S1, "already exists in Active Directory. Skipping creation.")
     ELSE LET S2 == conn_add(print(S1, "Creating Organizational Unit"),
                             ou_dn(ou_name), plain_attributes, f1)
          IN IF result(S2) = "success"
             THEN print(S2, "Organizational Unit created successfully.")
             ELSE print(S2, "Failed to create Organizational Unit")

ensure_ou_exists(S, ou_name, f1) ==
  LET S1 == conn_search(S, {ou_dn(ou_name), cn_dn(ou_name)})
  IN IF entries(S1) # {}
     THEN print(S1, "already exists in Active Directory. Skipping creation.")
     ELSE LET S2 == conn_add(print(S1, "Creating Organizational Unit"),
                             ou_dn(ou_name), plain_attributes, f1)
          IN IF result(S2) = "success"
             THEN print(S2, "Organizational Unit created successfully.")
             ELSE print(S2, "Failed to create Organizational Unit")

\* a create_group that adds without looking first
create_group_unchecked(S, name, f1) ==
  LET S2 == conn_add(S, group_dn(name), plain_attributes, f1)
  IN IF result(S2) = "success"
     THEN print(S2, "Group created successfully.")
     ELSE print(S2, "Failed to create group")

create_group(S, name, f1) ==
  LET S1 == conn_search(S, {group_dn(name)})
  IN IF entries(S1) # {}
     THEN print(S1, "Group already exists. Skipping creation.")
     ELSE LET S2 == conn_add(S1, group_dn(name), plain_attributes, f1)
          IN IF result(S2) = "success"
             THEN print(S2, "Group created successfully.")
             ELSE print(S2, "Failed to create group")

\* a user created already enabled
user_attributes_enabled == [userAccountControl |-> 512]

\* 'userAccountControl': 544  # Disabled User
user_attributes == [userAccountControl |-> 544]

\* lines 109-111: the enable step; its result is not looked at
create_user_enable(S, name, f3) ==
  print(conn_modify(S, user_dn(name), "userAccountControl", 512, f3),
        "User enabled successfully.")

\* a password step that goes on to the enable step whatever its result
create_user_set_password_no_return(S, name, f2, f3) ==
  LET S1 == conn_modify(S, user_dn(name), "unicodePwd", "password", f2)
  IN IF result(S1) # "success"
     THEN create_user_enable(print(S1, "Failed to set password"), name, f3)
     ELSE create_user_enable(print(S1, "Password set successfully"), name, f3)

\* lines 99-107: the password step, which returns when it fails
create_user_set_password(S, name, f2, f3) ==
  LET S1 == conn_modify(S, user_dn(name), "unicodePwd", "password", f2)
  IN IF result(S1) # "success"
     THEN print(S1, "Failed to set password")
     ELSE create_user_enable(print(S1, "Password set successfully"), name, f3)

\* uid and description only fill attributes no operation reads back
create_user(S, name, f1, f2, f3) ==
  LET S1 == conn_search(S, {user_dn(name)})
  IN IF entries(S1) # {}
     THEN print(S1, "User already exists. Skipping creation.")
     ELSE LET S2 == conn_add(S1, user_dn(name), user_attributes, f1)
          IN IF result(S2) # "success"
             THEN print(S2, "Failed to create user")
             ELSE create_user_set_password(
                    print(S2, "User created successfully."), name, f2, f3)

\* a member update that appends (MODIFY_ADD) instead of replacing
add_user_to_group_append(S, group_name, user_name, f1) ==
  LET S1 == conn_search(S, {group_dn(group_name)})
  IN IF entries(S1) = {}
     THEN print(S1, "Group not found. Skipping.")
     ELSE LET S2 == conn_search(S1, {user_dn(user_name)})
          IN IF entries(S2) = {}
             THEN print(S2, "User not found. Skipping.")
             ELSE LET S3 == conn_modify(S2, group_dn(group_name), "member",
                                        user_dn(user_name), f1)
                      S4 == [S3 EXCEPT !.member[group_dn(group_name)] =
                               S2.member[group_dn(group_name)] \cup @]
                  IN print(S4, "User added to group.")

add_user_to_group(S, group_name, user_name, f1) ==
  LET S1 == conn_search(S, {group_dn(group_name)})
  IN IF entries(S1) = {}
     THEN print(S1, "Group not found. Skipping.")
     ELSE LET S2 == conn_search(S1, {user_dn(user_name)})
          IN IF entries(S2) = {}
             THEN print(S2, "User not found. Skipping.")
             ELSE print(conn_modify(S2, group_dn(group_name), "member",
                                    user_dn(user_name), f1),
                        "User added to group.")

\* a delete_object that deletes without looking first
delete_object_unchecked(S, dn, f1) ==
  print(conn_delete(S, dn, f1), "deleted successfully.")

delete_object(S, dn, f1) ==
  LET S1 == conn_search(S, {dn})
  IN IF entries(S1) = {}
     THEN print(S1, "not found. Skipping deletion.")
     ELSE print(conn_delete(S1, dn, f1), "deleted successfully.")

(***************************************************************************)
(* setup_active_directory.py (legacy): no existence checks                 *)
(***************************************************************************)
create_ad_group(S, name, f1) ==
  LET S1 == conn_add(S, group_dn(name), plain_attributes, f1)
  IN IF result(S1) = "success"
     THEN print(S1, "Group created successfully")
     ELSE print(S1, "Failed to create group:")

\* 'userAccountControl': '512'
legacy_user_attributes == [userAccountControl |-> 512]

create_ad_user(S, name, f1) ==
  LET S1 == conn_add(S, legacy_user_dn(name), legacy_user_attributes, f1)
  IN IF result(S1) = "success"
     THEN print(S1, "User created successfully")
     ELSE print(S1, "Failed to create user:")

legacy_add_user_to_group(S, group_name, user_name, gid, f1, f2) ==
  LET S1 == conn_modify(S, group_dn(group_name), "member",
                        legacy_user_dn(user_name), f1)
      S2 == IF result(S1) = "success"
            THEN print(S1, "User added to group successfully")
            ELSE print(S1, "Failed to add user to group:")
      S3 == conn_modify(S2, legacy_user_dn(user_name), "primaryGroupID",
                        gid, f2)
  IN IF result(S3) = "success"
     THEN print(S3, "Primary group set successfully")
     ELSE print(S3, "Failed to set primary group:")

(***************************************************************************)
(* The directory machine: one action per operation.                        *)
(***************************************************************************)
NoOp == [name |-> "none", args |-> <<>>]

Call(o, S) ==
  /\ op' = o
  /\ dir' = S.dir
  /\ uac' = S.uac
  /\ pwd' = S.pwd
  /\ member' = S.member
  /\ pgid' = S.pgid
  /\ calls' = S.calls
  /\ log' = S.log
  /\ UNCHANGED svars

EnsureOuExists ==
  \E n \in OUNames, f1 \in BOOLEAN :
    Call([name |-> "ensure_ou_exists", args |-> <<n>>],
         ensure_ou_exists(Start, n, f1))

CreateGroup ==
  \E n \in GroupNames, f1 \in BOOLEAN :
    Call([name |-> "create_group", args |-> <<n>>],
         create_group(Start, n, f1))

CreateUser ==
  \E n \in UserNames, f1 \in BOOLEAN, f2 \in BOOLEAN, f3 \in BOOLEAN :
    Call([name |-> "create_user", args |-> <<n>>],
         create_user(Start, n, f1, f2, f3))

AddUserToGroup ==
  \E g \in GroupNames, u \in UserNames, f1 \in BOOLEAN :
    Call([name |-> "add_user_to_group", args |-> <<g, u>>],
         add_user_to_group(Start, g, u, f1))

DeleteObject ==
  \E dn \in DNs, f1 \in BOOLEAN :
    Call([name |-> "delete_object", args |-> <<dn>>],
         delete_object(Start, dn, f1))

CreateAdGroup ==
  \E n \in GroupNames, f1 \in BOOLEAN :
    Call([name |-> "create_ad_group", args |-> <<n>>],
         create_ad_group(Start, n, f1))

CreateAdUser ==
  \E n \in UserNames, f1 \in BOOLEAN :
    Call([name |-> "create_ad_user", args |-> <<n>>],
         create_ad_user(Start, n, f1))

LegacyAddUserToGroup ==
  \E g \in GroupNames, u \in UserNames, f1 \in BOOLEAN, f2 \in BOOLEAN :
    Call([name |-> "legacy_add_user_to_group", args |-> <<g, u>>],
         legacy_add_user_to_group(Start, g, u, legacy_gid(g), f1, f2))

\* an array holding none of the demo resources
NoArray ==
  [fs |-> {}, destroyed |-> {}, policies |-> {}, rules |-> {}, exports |-> {}]

\* a fresh domain: nothing but, possibly, built-in containers CN=<name>
Init ==
  /\ dir \in SUBSET {cn_dn(n) : n \in OUNames}
  /\ uac = [d \in DNs |-> 0]
  /\ pgid = [d \in DNs |-> 0]
  /\ pwd = {}
  /\ member = [d \in DNs |-> {}]
  /\ op = NoOp
  /\ calls = <<>>
  /\ log = <<>>
  /\ fa = NoArray
  /\ fa0 = NoArray
  /\ pc = 1
  /\ issued = <<>>

Next ==
  \/ EnsureOuExists
  \/ CreateGroup
  \/ CreateUser
  \/ AddUserToGroup
  \/ DeleteObject
  \/ CreateAdGroup
  \/ CreateAdUser
  \/ LegacyAddUserToGroup

Spec == Init /\ [][Next]_vars

(***************************************************************************)
(* setup_flasharray.py: setup(fa) then cleanup(fa), one SDK call a step.   *)
(* The array holds file systems (some destroyed, awaiting eradication),    *)
(* export policies, the policies that have a rule, and exports             *)
(* <<export name, policy name>>.                                           *)
(***************************************************************************)
FS_NAME == "multi_protocol_file_system"
NFS_POLICY == "nfs_multi_protocol_access_policy"
SMB_POLICY == "smb_multi_protocol_access_policy"

\* the calls of setup(fa), lines 8-24
setup_calls ==
  << [call |-> "create_file_system", name |-> FS_NAME, policy |-> ""],
     [call |-> "create_policy_nfs", name |-> NFS_POLICY, policy |-> NFS_POLICY],
     [call |-> "create_policy_nfs_rule", name |-> "*", policy |-> NFS_POLICY],
     [call |-> "export_managed_directory_nfs", name |-> "multi",
      policy |-> NFS_POLICY],
     [call |-> "create_policy_smb", name |-> SMB_POLICY, policy |-> SMB_POLICY],
     [call |-> "create_policy_smb_rule", name |-> "*", policy |-> SMB_POLICY],
     [call |-> "export_managed_directory_smb", name |-> "multi",
      policy |-> SMB_POLICY] >>

\* cleanup in the order export, policy, file system
cleanup_calls_policies_first ==
  << [call |-> "delete_export", name |-> "multi", policy |-> NFS_POLICY],
     [call |-> "delete_export", name |-> "EXCHANGE", policy |-> SMB_POLICY],
     [call |-> "delete_policy_nfs", name |-> NFS_POLICY, policy |-> NFS_POLICY],
     [call |-> "delete_policy_smb", name |-> SMB_POLICY, policy |-> SMB_POLICY],
     [call |-> "destroy_file_system", name |-> FS_NAME, policy |-> ""],
     [call |-> "eradicate_file_system", name |-> FS_NAME, policy |-> ""] >>

\* the calls of cleanup(fa), lines 29-37
cleanup_calls ==
  << [call |-> "delete_export", name |-> "multi", policy |-> NFS_POLICY],
     [call |-> "delete_export", name |-> "EXCHANGE", policy |-> SMB_POLICY],
     [call |-> "destroy_file_system", name |-> FS_NAME, policy |-> ""],
     [call |-> "eradicate_file_system", name |-> FS_NAME, policy |-> ""],
     [call |-> "delete_policy_nfs", name |-> NFS_POLICY, policy |-> NFS_POLICY],
     [call |-> "delete_policy_smb", name |-> SMB_POLICY, policy |-> SMB_POLICY] >>

\* lines 46-47: setup(fa) then cleanup(fa)
script == setup_calls \o cleanup_calls

\* whether the array has what call c acts on (or lacks what it creates)
fa_accepts(A, c) ==
  CASE c.call = "create_file_system" -> c.name \notin A.fs
    [] c.call \in {"create_policy_nfs", "create_policy_smb"} ->
         c.name \notin A.policies
    [] c.call \in {"create_policy_nfs_rule", "create_policy_smb_rule"} ->
         c.policy \in A.policies
    [] c.call \in {"export_managed_directory_nfs",
                   "export_managed_directory_smb"} ->
         /\ FS_NAME \in A.fs \ A.destroyed
         /\ c.policy \in A.policies
         /\ <<c.name, c.policy>> \notin A.exports
    [] c.call = "delete_export" -> <<c.name, c.policy>> \in A.exports
    [] c.call = "destroy_file_system" -> c.name \in A.fs \ A.destroyed
    [] c.call = "eradicate_file_system" -> c.name \in A.destroyed
    [] c.call \in {"delete_policy_nfs", "delete_policy_smb"} ->
         c.name \in A.policies

\* the array after call c; a call the array does not accept changes nothing
fa_apply(A, c) ==
  IF ~fa_accepts(A, c) THEN A
  ELSE CASE c.call = "create_file_system" -> [A EXCEPT !.fs = @ \cup {c.name}]
    [] c.call \in {"create_policy_nfs", "create_policy_smb"} ->
         [A EXCEPT !.policies = @ \cup {c.name}]
    [] c.call \in {"create_policy_nfs_rule", "create_policy_smb_rule"} ->
         [A EXCEPT !.rules = @ \cup {c.policy}]
    [] c.call \in {"export_managed_directory_nfs",
                   "export_managed_directory_smb"} ->
         [A EXCEPT !.exports = @ \cup {<<c.name, c.policy>>}]
    [] c.call = "delete_export" ->
         [A EXCEPT !.exports = @ \ {<<c.name, c.policy>>}]
    [] c.call = "destroy_file_system" ->
         [A EXCEPT !.destroyed = @ \cup {c.name}]
    [] c.call = "eradicate_file_system" ->
         [A EXCEPT !.fs = @ \ {c.name}, !.destroyed = @ \ {c.name}]
    [] c.call \in {"delete_policy_nfs", "delete_policy_smb"} ->
         [A EXCEPT !.policies = @ \ {c.name}, !.rules = @ \ {c.name}]

\* one SDK call of the script: issued, recorded with its outcome
Issue(c) ==
  /\ fa' = fa_apply(fa, c)
  /\ issued' = Append(issued, [call |-> c.call, name |-> c.name,
                               policy |-> c.policy, ok |-> fa_accepts(fa, c)])
  /\ pc' = pc + 1
  /\ UNCHANGED fa0
  /\ UNCHANGED dvars

Setup ==
  /\ pc <= Len(setup_calls)
  /\ Issue(script[pc])

Cleanup ==
  /\ pc > Len(setup_calls)
  /\ pc <= Len(script)
  /\ Issue(script[pc])

ScriptDone == pc = Len(script) + 1

\* the arrays the script may find: leftovers of earlier runs included
Arrays ==
  {A \in [fs : SUBSET {FS_NAME}, destroyed : SUBSET {FS_NAME},
          policies : SUBSET {NFS_POLICY, SMB_POLICY},
          rules : SUBSET {NFS_POLICY, SMB_POLICY},
          exports : SUBSET {<<"multi", NFS_POLICY>>, <<"multi", SMB_POLICY>>,
                            <<"EXCHANGE", SMB_POLICY>>}] :
     /\ A.destroyed \subseteq A.fs
     /\ A.rules \subseteq A.policies
     /\ \A e \in A.exports : e[2] \in A.policies /\ FS_NAME \in A.fs}

InitStorage ==
  /\ dir = {}
  /\ uac = [d \in DNs |-> 0]
  /\ pgid = [d \in DNs |-> 0]
  /\ pwd = {}
  /\ member = [d \in DNs |-> {}]
  /\ op = NoOp
  /\ calls = <<>>
  /\ log = <<>>
  /\ fa \in Arrays
  /\ fa0 = fa
  /\ pc = 1
  /\ issued = <<>>

NextStorage ==
  \/ Setup
  \/ Cleanup

SpecStorage == InitStorage /\ [][NextStorage]_vars

(***************************************************************************)
(* Reading the record of the last operation.                               *)
(***************************************************************************)
ClassOps ==
  {"ensure_ou_exists", "create_group", "create_user", "add_user_to_group",
   "delete_object"}
LegacyCreateOps == {"create_ad_group", "create_ad_user"}
IdempotentCreateOps == {"ensure_ou_exists", "create_group", "create_user"}

IsWrite(c) == c.call \in {"add", "modify", "delete"}
Failed(c) == IsWrite(c) /\ c.result # "success"
Succeeded(c) == IsWrite(c) /\ c.result = "success"
Idx(cs) == 1 .. Len(cs)
AddsIn(cs) == {i \in Idx(cs) : cs[i].call = "add"}
WritesIn(cs) == {i \in Idx(cs) : IsWrite(cs[i])}
Printed(l) == {l[i] : i \in 1 .. Len(l)}

IsPasswordSet(c) == c.call = "modify" /\ c.attr = "unicodePwd"
IsEnable(c) ==
  c.call = "modify" /\ c.attr = "userAccountControl" /\ c.val = 512

\* the object an idempotent create operation is about
TargetOf(o) ==
  CASE o.name = "ensure_ou_exists" -> ou_dn(o.args[1])
    [] o.name = "create_group" -> group_dn(o.args[1])
    [] o.name = "create_user" -> user_dn(o.args[1])

SkipLines ==
  {"already exists in Active Directory. Skipping creation.",
   "Group already exists. Skipping creation.",
   "User already exists. Skipping creation."}

FailureLines ==
  {"Failed to create Organizational Unit", "Failed to create group",
   "Failed to create user", "Failed to set password"}

\* the line the operation prints when the step of call c went well
SuccessLine(o, c) ==
  CASE c.call = "add" /\ o.name = "ensure_ou_exists" ->
         "Organizational Unit created successfully."
    [] c.call = "add" /\ o.name = "create_group" ->
         "Group created successfully."
    [] c.call = "add" /\ o.name = "create_user" ->
         "User created successfully."
    [] IsPasswordSet(c) -> "Password set successfully"
    [] IsEnable(c) -> "User enabled successfully."
    [] c.call = "modify" /\ c.attr = "member" -> "User added to group."
    [] c.call = "delete" -> "deleted successfully."

(***************************************************************************)
(* C1                                                                      *)
(***************************************************************************)
\* A second call of the same create operation right after a first one
SecondCall == op.name \in IdempotentCreateOps /\ op' = op

SecondCallSkips ==
  /\ WritesIn(calls') = {}
  /\ Len(log') = 1
  /\ log'[1] \in SkipLines
  /\ Cardinality(AddsIn(calls)) + Cardinality(AddsIn(calls')) = 1

\* C1 as stated: for ensure_ou_exists, create_group and create_user, when the
\* first call found the target absent (so it issued an add), a second call with
\* the same arguments issues no add or modify, logs "already exists ...
\* Skipping creation", and one add was issued across the two calls.
C1_TwiceOneAdd ==
  [][(SecondCall /\ AddsIn(calls) # {}) => SecondCallSkips]_vars

\* C1 amended: the same, when the add of the first call succeeded; the object
\* then exists and the second call leaves the directory as it is.
C1_TwiceOneAddWhenCreated ==
  [][(SecondCall /\ \E i \in AddsIn(calls) : Succeeded(calls[i]))
       => /\ SecondCallSkips
          /\ TargetOf(op) \in dir'
          /\ dir' = dir /\ uac' = uac /\ pwd' = pwd /\ member' = member]_vars

\* a create_user that found the user there: only an earlier create_user can
\* have made it
C1_Witness ==
  /\ op.name = "create_user"
  /\ log = <<"User already exists. Skipping creation.">>
  /\ user_dn(op.args[1]) \in dir

(***************************************************************************)
(* C2                                                                      *)
(***************************************************************************)
CreateUserRan == op.name = "create_user" /\ AddsIn(calls) # {}

\* the three steps in their order: add with 544, then password, then 512
StepsInOrder ==
  /\ calls[2].call = "add" /\ calls[2].val = 544
  /\ \A i \in Idx(calls) :
       /\ IsPasswordSet(calls[i]) => i = 3
       /\ IsEnable(calls[i]) => i = 4 /\ IsPasswordSet(calls[3])
  /\ Succeeded(calls[2]) => Len(calls) >= 3 /\ IsPasswordSet(calls[3])

\* C2 as stated: create_user on an absent user goes created-disabled (544),
\* password-set, enabled (512) in that order, and when the password step fails
\* the enable modify is still issued and the password failure is logged.
C2_EnableAfterFailedPassword ==
  CreateUserRan =>
    /\ StepsInOrder
    /\ \A i \in Idx(calls) :
         (IsPasswordSet(calls[i]) /\ Failed(calls[i])) =>
           /\ \E j \in Idx(calls) : j > i /\ IsEnable(calls[j])
           /\ "Failed to set password" \in Printed(log)

\* C2 amended: the same order; the enable modify is issued exactly when the
\* password step succeeded, and when the password step fails the failure is
\* logged, the operation returns and the account stays disabled (544).
C2_NoEnableAfterFailedPassword ==
  CreateUserRan =>
    /\ StepsInOrder
    /\ (Len(calls) >= 3 /\ Succeeded(calls[3])) =>
         Len(calls) = 4 /\ IsEnable(calls[4])
    /\ (Len(calls) >= 3 /\ Failed(calls[3])) =>
         /\ Len(calls) = 3
         /\ log[Len(log)] = "Failed to set password"
         /\ uac[user_dn(op.args[1])] = 544
         /\ user_dn(op.args[1]) \notin pwd

C2_Witness ==
  /\ CreateUserRan
  /\ Len(calls) = 3
  /\ IsPasswordSet(calls[3])
  /\ Failed(calls[3])

(***************************************************************************)
(* C3                                                                      *)
(***************************************************************************)
\* every add follows a search for its DN that found nothing, every delete a
\* search for its DN that found it
ExistenceChecked(cs) ==
  \A i \in Idx(cs) :
    /\ cs[i].call = "add" =>
         \E j \in 1 .. (i - 1) :
           /\ cs[j].call = "search"
           /\ cs[i].dn \in cs[j].filter
           /\ cs[j].entries = {}
    /\ cs[i].call = "delete" =>
         \E j \in 1 .. (i - 1) :
           /\ cs[j].call = "search"
           /\ cs[i].dn \in cs[j].entries

\* C3 as stated: in every operation of ActiveDirectory and in the legacy
\* create_ad_group and create_ad_user, an add or delete is preceded by an
\* existence search for the same object, and issued only on the right answer.
C3_AllCreatesChecked ==
  op.name \in ClassOps \cup LegacyCreateOps => ExistenceChecked(calls)

\* C3 amended: that holds for every operation of ActiveDirectory; the legacy
\* create_ad_group and create_ad_user issue their add with no search at all.
C3_ClassCreatesChecked ==
  /\ op.name \in ClassOps => ExistenceChecked(calls)
  /\ op.name \in LegacyCreateOps => Len(calls) = 1 /\ calls[1].call = "add"

C3_Witness ==
  /\ op.name = "create_group"
  /\ \E i \in AddsIn(calls) : Succeeded(calls[i])

(***************************************************************************)
(* C4                                                                      *)
(***************************************************************************)
\* C4: in every operation of ActiveDirectory, when an add, modify or delete
\* returns a status other than 'success', a failure is logged and the success
\* line of that step is not.
C4_FailuresLogged ==
  op.name \in ClassOps =>
    \A i \in Idx(calls) :
      Failed(calls[i]) =>
        /\ Printed(log) \cap FailureLines # {}
        /\ SuccessLine(op, calls[i]) \notin Printed(log)

(***************************************************************************)
(* C6                                                                      *)
(***************************************************************************)
\* C6: after an add_user_to_group(G, U) whose modify succeeded, the member
\* attribute of G is exactly {U}, whatever it held before.
C6_MemberIsLastUser ==
  (/\ op.name = "add_user_to_group"
   /\ Len(calls) = 3
   /\ Succeeded(calls[3]))
    => member[group_dn(op.args[1])] = {user_dn(op.args[2])}

\* the second of two users put in the group, the first one still existing
C6_Witness ==
  /\ op = [name |-> "add_user_to_group", args |-> <<"win_users", "nfs_daemon">>]
  /\ Len(calls) = 3
  /\ Succeeded(calls[3])
  /\ user_dn("win_user") \in dir
  /\ member[group_dn("win_users")] = {user_dn("nfs_daemon")}

(***************************************************************************)
(* C7                                                                      *)
(***************************************************************************)
DirectoryUnchanged ==
  dir' = dir /\ uac' = uac /\ pwd' = pwd /\ member' = member /\ pgid' = pgid

\* C7: delete_object(dn) on a dn that is not in the directory issues no
\* delete, leaves the directory as it is and logs "not found. Skipping
\* deletion."; so a delete_object right after one that deleted dn is a no-op.
C7_DeleteAbsentIsNoOp ==
  [][/\ (op'.name = "delete_object" /\ op'.args[1] \notin dir)
          => /\ DirectoryUnchanged
             /\ WritesIn(calls') = {}
             /\ log' = <<"not found. Skipping deletion.">>
     /\ (/\ op.name = "delete_object"
         /\ op' = op
         /\ \E i \in WritesIn(calls) : Succeeded(calls[i]))
          => /\ DirectoryUnchanged
             /\ WritesIn(calls') = {}]_vars

C7_Witness ==
  /\ op.name = "delete_object"
  /\ log = <<"not found. Skipping deletion.">>
  /\ WritesIn(calls) = {}

(***************************************************************************)
(* C8                                                                      *)
(***************************************************************************)
\* C8: a create_user call during which the directory rejected nothing leaves
\* the user existing, with the password set and the account enabled (512),
\* whatever an earlier call left behind.
C8_RerunConverges ==
  (/\ op.name = "create_user"
   /\ \A i \in Idx(calls) : ~Failed(calls[i]))
    => /\ user_dn(op.args[1]) \in dir
       /\ user_dn(op.args[1]) \in pwd
       /\ uac[user_dn(op.args[1])] = 512

(***************************************************************************)
(* C10                                                                     *)
(***************************************************************************)
\* C10: a user of create_user is enabled (512) only with its password set,
\* and a create_user whose add or password step failed issued no enable
\* modify and left the user disabled (544) or absent.
C10_EnabledOnlyWithPassword ==
  /\ \A n \in UserNames :
       uac[user_dn(n)] = 512 => user_dn(n) \in pwd /\ user_dn(n) \in dir
  /\ (/\ op.name = "create_user"
      /\ \E i \in Idx(calls) :
           Failed(calls[i]) /\ (calls[i].call = "add" \/ IsPasswordSet(calls[i])))
       => /\ \A j \in Idx(calls) : ~IsEnable(calls[j])
          /\ uac[user_dn(op.args[1])] \in {0, 544}

C10_Witness ==
  /\ op.name = "create_user"
  /\ Len(calls) = 4
  /\ uac[user_dn(op.args[1])] = 512
  /\ user_dn(op.args[1]) \in pwd

(***************************************************************************)
(* C5, C9: the storage script                                              *)
(***************************************************************************)
\* C5: from an array holding none of the demo resources, setup(fa) then
\* cleanup(fa) leaves none of them.
C5_TeardownComplete ==
  (ScriptDone /\ fa0 = NoArray) => fa = NoArray

IssuedBefore(j, P(_)) == \E i \in 1 .. (j - 1) : P(issued[i])

IsDeletePolicy(c) == c.call \in {"delete_policy_nfs", "delete_policy_smb"}
IsExport(c) ==
  c.call \in {"export_managed_directory_nfs", "export_managed_directory_smb"}

\* eradicate comes after destroy
EradicateAfterDestroy ==
  \A j \in Idx(issued) :
    issued[j].call = "eradicate_file_system" =>
      IssuedBefore(j, LAMBDA c : c.call = "destroy_file_system")

====
